---- MODULE Spec2Model ----
(***************************************************************************)
(* Model of the OpenAPI comparison scripts: analyze_openapi_changes.py,    *)
(* openapi_diff.py and the app/ comparison service.                        *)
(*                                                                         *)
(* Text is modelled character by character (a Python str is a sequence of  *)
(* one-character strings), because the classifiers of the code decide by   *)
(* substring tests on rendered text.                                       *)
(***************************************************************************)
EXTENDS Integers, Sequences, FiniteSets, TLC

(***************************************************************************)
(* Text                                                                    *)
(***************************************************************************)
s_paths == <<"p", "a", "t", "h", "s">>
s_endpoint == <<"e", "n", "d", "p", "o", "i", "n", "t">>
s_components == <<"c", "o", "m", "p", "o", "n", "e", "n", "t", "s">>
s_securitySchemes == <<"s", "e", "c", "u", "r", "i", "t", "y", "S", "c", "h", "e", "m", "e", "s">>
s_schemas == <<"s", "c", "h", "e", "m", "a", "s">>
s_info == <<"i", "n", "f", "o">>
s_version == <<"v", "e", "r", "s", "i", "o", "n">>
s_tags == <<"t", "a", "g", "s">>
s_api_key == <<"a", "p", "i", "_", "k", "e", "y">>
s_type == <<"t", "y", "p", "e">>
s_apiKey == <<"a", "p", "i", "K", "e", "y">>
s_slash_a == <<"/", "a">>
s_slash_b == <<"/", "b">>
s_v10 == <<"1", ".", "0">>
s_v11 == <<"1", ".", "1">>
s_a == <<"a">>
s_b == <<"b">>
s_root == <<"r", "o", "o", "t">>
s_arrow == <<" ", "-", ">", " ">>
s_not_present == <<"n", "o", "t", " ", "p", "r", "e", "s", "e", "n", "t">>
s_None == <<"N", "o", "n", "e">>
s_type_changes == <<"t", "y", "p", "e", "_", "c", "h", "a", "n", "g", "e", "s">>
s_dictionary_item_added == <<"d", "i", "c", "t", "i", "o", "n", "a", "r", "y", "_", "i", "t", "e", "m", "_", "a", "d", "d", "e", "d">>
s_dictionary_item_removed == <<"d", "i", "c", "t", "i", "o", "n", "a", "r", "y", "_", "i", "t", "e", "m", "_", "r", "e", "m", "o", "v", "e", "d">>
s_values_changed == <<"v", "a", "l", "u", "e", "s", "_", "c", "h", "a", "n", "g", "e", "d">>
s_iterable_item_added == <<"i", "t", "e", "r", "a", "b", "l", "e", "_", "i", "t", "e", "m", "_", "a", "d", "d", "e", "d">>
s_iterable_item_removed == <<"i", "t", "e", "r", "a", "b", "l", "e", "_", "i", "t", "e", "m", "_", "r", "e", "m", "o", "v", "e", "d">>

LowerCase == <<"a", "b", "c", "d", "e", "f", "g", "h", "i", "j", "k", "l", "m", "n", "o", "p", "q", "r", "s", "t", "u", "v", "w", "x", "y", "z">>
UpperCase == <<"A", "B", "C", "D", "E", "F", "G", "H", "I", "J", "K", "L", "M", "N", "O", "P", "Q", "R", "S", "T", "U", "V", "W", "X", "Y", "Z">>
Digits == <<"0", "1", "2", "3", "4", "5", "6", "7", "8", "9">>

\* str.lower() and str.upper(), one character at a time.
LowerChar(c) ==
    IF \E i \in 1..Len(UpperCase) : UpperCase[i] = c
    THEN LowerCase[CHOOSE i \in 1..Len(UpperCase) : UpperCase[i] = c]
    ELSE c
UpperChar(c) ==
    IF \E i \in 1..Len(LowerCase) : LowerCase[i] = c
    THEN UpperCase[CHOOSE i \in 1..Len(LowerCase) : LowerCase[i] = c]
    ELSE c
lower(s) == [i \in 1..Len(s) |-> LowerChar(s[i])]
upper(s) == [i \in 1..Len(s) |-> UpperChar(s[i])]

\* Python's `needle in hay` on str: needle occurs as a contiguous substring.
Contains(hay, needle) ==
    \E i \in 0..(Len(hay) - Len(needle)) :
        \A j \in 1..Len(needle) : hay[i + j] = needle[j]

\* str.strip() leaves nothing: every character is whitespace.
IsBlank(s) == \A i \in 1..Len(s) : s[i] \in {" ", "\n"}

RECURSIVE Join(_, _)
\* sep.join(parts)
Join(sep, parts) ==
    IF Len(parts) = 0 THEN <<>>
    ELSE IF Len(parts) = 1 THEN parts[1]
    ELSE parts[1] \o sep \o Join(sep, Tail(parts))

RECURSIVE Concat(_)
\* The concatenation of a sequence of sequences.
Concat(ss) == IF Len(ss) = 0 THEN <<>> ELSE ss[1] \o Concat(Tail(ss))

(***************************************************************************)
(* Documents: what json.load returns.  Every value is a record [t, v];     *)
(* a dict is a sequence of (key, value) pairs in insertion order.          *)
(***************************************************************************)
Str(s) == [t |-> "str", v |-> s]
Dict(pairs) == [t |-> "dict", v |-> pairs]
List(items) == [t |-> "list", v |-> items]
KV(k, d) == [k |-> k, d |-> d]
None == [t |-> "none", v |-> <<>>]
\* deepdiff.helper.notpresent: the other side of an added or removed item.
NotPresent == [t |-> "notpresent", v |-> <<>>]

HasKey(m, key) == \E i \in 1..Len(m.v) : m.v[i].k = key
\* dict.get(key): the value, or None when the key is absent.
DictGet(m, key) ==
    IF HasKey(m, key)
    THEN m.v[CHOOSE i \in 1..Len(m.v) : m.v[i].k = key].d
    ELSE None

RECURSIVE DeepEq(_, _)
\* Python's == on parsed JSON values.
DeepEq(a, b) ==
    IF a.t # b.t THEN FALSE
    ELSE IF a.t = "dict" THEN
        /\ Len(a.v) = Len(b.v)
        /\ \A i \in 1..Len(a.v) :
              /\ HasKey(b, a.v[i].k)
              /\ DeepEq(a.v[i].d, DictGet(b, a.v[i].k))
    ELSE IF a.t = "list" THEN
        /\ Len(a.v) = Len(b.v)
        /\ \A i \in 1..Len(a.v) : DeepEq(a.v[i], b.v[i])
    ELSE a.v = b.v

\* Python truthiness of a loaded value (None, {}, [] and "" are falsy).
Truthy(d) ==
    IF d.t = "none" THEN FALSE
    ELSE Len(d.v) > 0

(***************************************************************************)
(* Paths.  A segment is a dict key or a list index.                        *)
(***************************************************************************)
KeySeg(k) == [key |-> k, idx |-> -1]
IdxSeg(i) == [key |-> <<>>, idx |-> i]
IsIntSeg(seg) == seg.idx >= 0

\* str(i) for a small non-negative integer.
IntStr(i) == IF i < 10 THEN <<Digits[i + 1]>> ELSE <<Digits[(i \div 10) + 1], Digits[(i % 10) + 1]>>

SegStr(seg) ==
    IF IsIntSeg(seg) THEN <<"[">> \o IntStr(seg.idx) \o <<"]">>
    ELSE <<"[", "'">> \o seg.key \o <<"'", "]">>

\* DiffLevel.path(): root['info']['version'], root['tags'][1]
PathStr(path) == s_root \o Concat([i \in 1..Len(path) |-> SegStr(path[i])])

RECURSIVE PyRepr(_)
\* repr() of a value, as an f-string shows a dict or a list.
PyRepr(d) ==
    IF d.t = "str" THEN <<"'">> \o d.v \o <<"'">>
    ELSE IF d.t = "none" THEN s_None
    ELSE IF d.t = "notpresent" THEN s_not_present
    ELSE IF d.t = "dict" THEN
        <<"{">> \o Join(<<",", " ">>,
                        [i \in 1..Len(d.v) |->
                            <<"'">> \o d.v[i].k \o <<"'", ":", " ">> \o PyRepr(d.v[i].d)])
                \o <<"}">>
    ELSE <<"[">> \o Join(<<",", " ">>, [i \in 1..Len(d.v) |-> PyRepr(d.v[i])]) \o <<"]">>

\* str() of a value inside an f-string: a str is shown bare.
PyStr(d) == IF d.t = "str" THEN d.v ELSE PyRepr(d)

(***************************************************************************)
(* DeepDiff(old, new, view='tree'): the change levels, each with its       *)
(* report type, its path and the two values (t1 in old, t2 in new).        *)
(***************************************************************************)
Level(kind, path, t1, t2) == [kind |-> kind, path |-> path, t1 |-> t1, t2 |-> t2]

\* The report types, in the order the tree result lists them.
REPORT_KEYS == <<"type_changes", "dictionary_item_added", "dictionary_item_removed",
                 "values_changed", "iterable_item_added", "iterable_item_removed">>

ReportKeyStr(kind) ==
    CASE kind = "type_changes" -> s_type_changes
      [] kind = "dictionary_item_added" -> s_dictionary_item_added
      [] kind = "dictionary_item_removed" -> s_dictionary_item_removed
      [] kind = "values_changed" -> s_values_changed
      [] kind = "iterable_item_added" -> s_iterable_item_added
      [] OTHER -> s_iterable_item_removed

Min(a, b) == IF a < b THEN a ELSE b

RECURSIVE DiffLevels(_, _, _)
\* The levels at which old and new differ, in the order they are found.
DiffLevels(a, b, path) ==
    IF a.t # b.t THEN <<Level("type_changes", path, a, b)>>
    ELSE IF a.t = "dict" THEN
        LET added == [i \in 1..Len(b.v) |->
                        IF HasKey(a, b.v[i].k) THEN <<>>
                        ELSE <<Level("dictionary_item_added",
                                     Append(path, KeySeg(b.v[i].k)), NotPresent, b.v[i].d)>>]
            removed == [i \in 1..Len(a.v) |->
                        IF HasKey(b, a.v[i].k) THEN <<>>
                        ELSE <<Level("dictionary_item_removed",
                                     Append(path, KeySeg(a.v[i].k)), a.v[i].d, NotPresent)>>]
            common == [i \in 1..Len(a.v) |->
                        IF HasKey(b, a.v[i].k)
                        THEN DiffLevels(a.v[i].d, DictGet(b, a.v[i].k),
                                        Append(path, KeySeg(a.v[i].k)))
                        ELSE <<>>]
        IN  Concat(added) \o Concat(removed) \o Concat(common)
    ELSE IF a.t = "list" THEN
        LET n == Min(Len(a.v), Len(b.v))
            shared == [i \in 1..n |-> DiffLevels(a.v[i], b.v[i], Append(path, IdxSeg(i - 1)))]
            extra == IF Len(b.v) > n
                     THEN [i \in 1..(Len(b.v) - n) |->
                             Level("iterable_item_added", Append(path, IdxSeg(n + i - 1)),
                                   NotPresent, b.v[n + i])]
                     ELSE [i \in 1..(Len(a.v) - n) |->
                             Level("iterable_item_removed", Append(path, IdxSeg(n + i - 1)),
                                   a.v[n + i], NotPresent)]
        IN  Concat(shared) \o extra
    ELSE IF a.v # b.v THEN <<Level("values_changed", path, a, b)>>
    ELSE <<>>

FilterKind(levels, kind) ==
    LET Is(l) == l.kind = kind IN SelectSeq(levels, Is)

\* The tree view: one entry per report type that has levels, in REPORT_KEYS order.
DeepDiff(a, b) ==
    LET levels == DiffLevels(a, b, <<>>)
        HasKind(k) == Len(FilterKind(levels, k)) > 0
        kinds == SelectSeq(REPORT_KEYS, HasKind)
    IN  [i \in 1..Len(kinds) |-> [change_type |-> kinds[i], changes |-> FilterKind(levels, kinds[i])]]

\* `key in diff`: the keys of the tree result are its report types.
DiffHasKey(diff, key) == \E i \in 1..Len(diff) : diff[i].change_type = key

\* Every level of the diff, report type by report type (the nested for loops).
AllChanges(diff) == Concat([i \in 1..Len(diff) |-> diff[i].changes])

(***************************************************************************)
(* get_by_path / _get_by_path                                              *)
(***************************************************************************)
\* The lookup raised IndexError (list index out of range).
IndexError == [t |-> "IndexError", v |-> <<>>]

RECURSIVE get_by_path(_, _)
get_by_path(data, path_list) ==
    IF Len(path_list) = 0 THEN data
    ELSE LET key == path_list[1] IN
        IF data.t = "dict" THEN
            \* a dict of a JSON document has str keys only: get(int) is None
            get_by_path(IF IsIntSeg(key) THEN None ELSE DictGet(data, key.key), Tail(path_list))
        ELSE IF data.t = "list" /\ IsIntSeg(key) THEN
            IF key.idx < Len(data.v)
            THEN get_by_path(data.v[key.idx + 1], Tail(path_list))
            ELSE IndexError
        ELSE None

(***************************************************************************)
(* The documents the input files may hold.                                 *)
(***************************************************************************)
D_info10 == Dict(<<KV(s_info, Dict(<<KV(s_version, Str(s_v10))>>))>>)
D_info11 == Dict(<<KV(s_info, Dict(<<KV(s_version, Str(s_v11))>>))>>)
D_pathsA == Dict(<<KV(s_paths, Dict(<<KV(s_slash_a, Dict(<<KV(s_type, Str(s_a))>>))>>))>>)
D_pathsAB == Dict(<<KV(s_paths, Dict(<<KV(s_slash_a, Dict(<<KV(s_type, Str(s_a))>>)),
                                      KV(s_slash_b, Dict(<<KV(s_type, Str(s_b))>>))>>))>>)
D_sec == Dict(<<KV(s_components,
                   Dict(<<KV(s_securitySchemes,
                             Dict(<<KV(s_api_key, Dict(<<KV(s_type, Str(s_apiKey))>>))>>))>>))>>)
D_secNone == Dict(<<KV(s_components, Dict(<<KV(s_securitySchemes, Dict(<<>>))>>))>>)
D_infoPathsA == Dict(<<KV(s_info, Dict(<<KV(s_paths, Str(s_a))>>))>>)
D_infoPathsB == Dict(<<KV(s_info, Dict(<<KV(s_paths, Str(s_b))>>))>>)
D_tags1 == Dict(<<KV(s_tags, List(<<Str(s_a)>>))>>)
D_tags2 == Dict(<<KV(s_tags, List(<<Str(s_a), Str(s_b)>>))>>)
D_empty == Dict(<<>>)
D_schemasA == Dict(<<KV(s_components, Dict(<<KV(s_schemas, Dict(<<KV(s_a, Str(s_a))>>))>>))>>)
D_schemasB == Dict(<<KV(s_components, Dict(<<KV(s_schemas, Dict(<<KV(s_a, Str(s_b))>>))>>))>>)
D_infoEndpoint == Dict(<<KV(s_info, Dict(<<KV(s_version, Str(s_endpoint))>>))>>)
D_infoStr == Dict(<<KV(s_info, Str(s_v10))>>)

Catalogue == <<D_sec, D_secNone, D_info10, D_info11, D_pathsA, D_pathsAB,
               D_tags1, D_tags2, D_infoPathsA, D_infoPathsB, D_empty,
               D_schemasA, D_schemasB, D_infoEndpoint, D_infoStr>>

\* How many documents of the catalogue the input files are drawn from.
NumDocs == 13

\* A file that is missing or is not JSON: open() or json.load raises.
Unparseable == [t |-> "unparseable", v |-> <<>>]

\* The input files: file 0 cannot be loaded, file i holds Catalogue[i].
FileIds == 0..Min(NumDocs, Len(Catalogue))
FileAt(i) == [id |-> i, doc |-> IF i = 0 THEN Unparseable ELSE Catalogue[i]]

(***************************************************************************)
(* analyze_openapi_changes.py                                              *)
(***************************************************************************)
\* load_json_file: the parsed document, or None after printing the error.
load_json_file(file) == IF file.doc.t = "unparseable" THEN None ELSE file.doc

\* Lines 96-106: the plain text of the diff.
DiffText(diff) ==
    Join(<<"\n">>,
         Concat([i \in 1..Len(diff) |->
                    <<upper(ReportKeyStr(diff[i].change_type)) \o <<":">> >>
                    \o [j \in 1..Len(diff[i].changes) |->
                           <<" ", " ">> \o PathStr(diff[i].changes[j].path)
                           \o s_arrow \o PyStr(diff[i].changes[j].t2)]]))

(* What the call to the classification service did.                        *)
(*   nocall    : classify_changes returned before the call                 *)
(*   client    : OpenAI(api_key=None) raised, no key being configured      *)
(*   answer    : content is a JSON object with a "classification" member   *)
(*   malformed : content is not JSON (json.JSONDecodeError)                *)
(*   badshape  : content is JSON without "classification" (KeyError,       *)
(*               TypeError)                                                *)
(*   transport : the request raised a connection or API error              *)
(*   timeout   : the request raised a timeout error                        *)
Resp(kind, label) == [kind |-> kind, label |-> label]

\* Lines 67-74: the arguments of client.chat.completions.create.  No timeout
\* argument is passed.
ChatRequest == [model |-> "gpt-4", max_tokens |-> "10", timeout |-> "not given"]
NothingSent == [model |-> "", max_tokens |-> "", timeout |-> ""]
NoCall == Resp("nocall", "")

\* The values the service may put in "classification".
Labels == {"API Change", "Production Update", "No Changes", "Breaking Change"}

\* Lines 85-90: the classification by the text of the diff.
FallbackClassification(diff_text) ==
    IF Contains(lower(diff_text), s_paths) \/ Contains(lower(diff_text), s_endpoint)
    THEN "API Change"
    ELSE "Production Update"

\* classify_changes without the early return of lines 35-36.
classify_changes_NoEarlyReturn(diff_text, resp) ==
    IF resp.kind = "client" THEN "raise"
    ELSE IF resp.kind = "answer" THEN resp.label
    ELSE IF resp.kind = "malformed" THEN "Error"
    ELSE FallbackClassification(diff_text)

\* classify_changes, given what the service call did.  "raise" stands for an
\* exception leaving the function (the client could not be constructed).
classify_changes(diff_text, resp) ==
    IF IsBlank(diff_text) THEN "No Changes"
    ELSE IF resp.kind = "client" THEN "raise"
    ELSE IF resp.kind = "answer" THEN resp.label
    ELSE IF resp.kind = "malformed" THEN "Error"
    ELSE FallbackClassification(diff_text)

\* Lines 116-138: the category sections.  `"paths" in diff` asks whether the
\* tree result has a report type of that name.
Sections(classification, diff) ==
    IF classification = "No Changes" THEN <<>>
    ELSE (IF DiffHasKey(diff, "paths") THEN <<"## API Changes">> ELSE <<>>)
         \o (IF DiffHasKey(diff, "components") THEN <<"## Security Changes">> ELSE <<>>)
         \o (IF DiffHasKey(diff, "info") THEN <<"## Documentation Changes">> ELSE <<>>)

Report(headline, sections, raw) ==
    [kind |-> "report", headline |-> headline, sections |-> sections, raw |-> raw]
\* "Failed to analyze changes: ..."
FailureText == [kind |-> "failure", headline |-> "", sections |-> <<>>, raw |-> <<>>]
NoText == [kind |-> "none", headline |-> "", sections |-> <<>>, raw |-> <<>>]

\* analyze_changes: (classification, summary_md).
analyze_changes(old_schema, new_schema, resp) ==
    LET diff == DeepDiff(old_schema, new_schema)
        diff_text == DiffText(diff)
        classification == classify_changes(diff_text, resp)
    IN  IF classification = "raise"
        THEN [classification |-> "Error", summary_md |-> FailureText]
        ELSE [classification |-> classification,
              summary_md |-> Report(classification, Sections(classification, diff), diff_text)]

Resps ==
    {NoCall, Resp("client", ""), Resp("malformed", ""), Resp("badshape", ""),
     Resp("transport", ""), Resp("timeout", "")}
    \cup {Resp("answer", label) : label \in Labels}

(***************************************************************************)
(* openapi_diff.py                                                         *)
(***************************************************************************)
Entry(level, old, new) ==
    [path |-> PathStr(level.path),
     path_list |-> level.path,
     old_val |-> get_by_path(old, level.path),
     new_val |-> get_by_path(new, level.path)]

EntryRaises(e) == e.old_val.t = "IndexError" \/ e.new_val.t = "IndexError"

\* The entries of the leading changes whose two lookups complete.
RECURSIVE EntriesUntilRaise(_)
EntriesUntilRaise(entries) ==
    IF Len(entries) = 0 \/ EntryRaises(entries[1]) THEN <<>>
    ELSE <<entries[1]>> \o EntriesUntilRaise(Tail(entries))

NoOutput == [kind |-> "none", entries |-> <<>>]

\* compare_openapi_files with an output file: whether it raised, and the
\* file it wrote (what had been written, when it raised part-way).
compare_openapi_files(old_file, new_file) ==
    IF old_file.doc.t = "unparseable" \/ new_file.doc.t = "unparseable"
    THEN [raised |-> TRUE, output |-> NoOutput]
    ELSE LET old == old_file.doc
             new == new_file.doc
             diff == DeepDiff(old, new)
             changes == AllChanges(diff)
             entries == [i \in 1..Len(changes) |-> Entry(changes[i], old, new)]
             written == EntriesUntilRaise(entries)
         IN  IF Len(diff) = 0
             THEN [raised |-> FALSE, output |-> [kind |-> "no differences", entries |-> <<>>]]
             ELSE [raised |-> Len(written) < Len(entries),
                   output |-> [kind |-> "detailed", entries |-> written]]

(***************************************************************************)
(* app/comparator.py                                                       *)
(***************************************************************************)
api_components_schemas == <<"c", "o", "m", "p", "o", "n", "e", "n", "t", "s", ".", "s", "c", "h", "e", "m", "a", "s">>
api_components_securitySchemes == <<"c", "o", "m", "p", "o", "n", "e", "n", "t", "s", ".", "s", "e", "c", "u", "r", "i", "t", "y", "S", "c", "h", "e", "m", "e", "s">>
api_components_parameters == <<"c", "o", "m", "p", "o", "n", "e", "n", "t", "s", ".", "p", "a", "r", "a", "m", "e", "t", "e", "r", "s">>
api_components_responses == <<"c", "o", "m", "p", "o", "n", "e", "n", "t", "s", ".", "r", "e", "s", "p", "o", "n", "s", "e", "s">>

api_paths == <<s_paths, api_components_schemas, api_components_securitySchemes,
               api_components_parameters, api_components_responses>>

\* _is_api_change: some api_path occurs in the rendered path.
_is_api_change(path, old_val, new_val) ==
    \E i \in 1..Len(api_paths) : Contains(path, api_paths[i])

NoContent == [kind |-> "none", headings |-> <<>>, api |-> <<>>, production |-> <<>>]

\* Lines 106-109 with every heading written, whether or not its category
\* has a change.
CategoryHeadings_Always(api, production) ==
    <<"## API Changes", "## Production Changes">>

\* Lines 106-109: the heading of a category is written if the category has
\* a change.
CategoryHeadings(api, production) ==
    (IF Len(api) > 0 THEN <<"## API Changes">> ELSE <<>>)
    \o (IF Len(production) > 0 THEN <<"## Production Changes">> ELSE <<>>)

\* _generate_categorized_diff: whether it raised, and the content returned:
\* the paths listed under "API Changes" and under "Production Changes".
_generate_categorized_diff(old_file, new_file) ==
    IF old_file.doc.t = "unparseable" \/ new_file.doc.t = "unparseable"
    THEN [raised |-> TRUE, content |-> NoContent]
    ELSE LET old == old_file.doc
             new == new_file.doc
             diff == DeepDiff(old, new)
             changes == AllChanges(diff)
             entries == [i \in 1..Len(changes) |-> Entry(changes[i], old, new)]
             IsApi(e) == _is_api_change(e.path, e.old_val, e.new_val)
             IsProd(e) == ~IsApi(e)
         IN  IF Len(diff) = 0
             THEN [raised |-> FALSE,
                   content |-> [kind |-> "No Changes", headings |-> <<>>,
                                api |-> <<>>, production |-> <<>>]]
             ELSE IF \E i \in 1..Len(entries) : EntryRaises(entries[i])
             THEN [raised |-> TRUE, content |-> NoContent]
             ELSE [raised |-> FALSE,
                   content |-> [kind |-> "categorized",
                                headings |-> CategoryHeadings(SelectSeq(entries, IsApi),
                                                              SelectSeq(entries, IsProd)),
                                api |-> SelectSeq(entries, IsApi),
                                production |-> SelectSeq(entries, IsProd)]]

(***************************************************************************)
(* State                                                                   *)
(***************************************************************************)
VARIABLES
    old_file,        \* content of the old input file
    new_file,        \* content of the new input file
    apiKey,          \* whether an API key is configured for the client
    call,            \* the request sent to the classification service
    pc,              \* "start", "waiting" (service call in flight), "exit"
    prog,            \* the entry point that ran
    resp,            \* what the service call did
    diffed,          \* whether DeepDiff was computed
    classification,  \* analyze_changes' classification
    summary_md,      \* analyze_changes' report text
    saved,           \* the file save_markdown wrote
    output,          \* the file compare_openapi_files wrote
    content,         \* what _generate_categorized_diff returned
    exit,            \* "running", "ok" (returned) or "raised" (uncaught exception)
    today,           \* the service: the current date
    startDate,       \* the service: the date the process imported app.models
    updates,         \* the service: the files of the updates directory
    nCalls,          \* the service: POST /compare requests handled so far
    request,         \* the service: the last request
    scriptRan,       \* the service: whether the last request ran the script
    readFile,        \* the service: the file compare_commits looked for
    result,          \* the service: the last ComparisonResult
    response,        \* the service: the last HTTP response
    repos,           \* fetch: the repository list given to clone_or_update_repos
    use_ssh,         \* fetch: whether the SSH URL is used
    dirs,            \* fetch: what is in the working directory under each name
    idx,             \* fetch: position of the loop in repos
    new_repos,       \* fetch: counter
    updated_repos,   \* fetch: counter
    failed_repos,    \* fetch: counter
    skipped_repos,   \* fetch: counter
    lastOp,          \* fetch: what the last iteration did to its directory
    summary          \* fetch: the summary printed at the end

cliVars == <<old_file, new_file, apiKey, call, pc, prog, resp, diffed, classification,
             summary_md, saved, output, content, exit>>
srvVars == <<today, startDate, updates, nCalls, request, scriptRan, readFile, result, response>>
fetchVars == <<repos, use_ssh, dirs, idx, new_repos, updated_repos, failed_repos,
               skipped_repos, lastOp, summary>>
vars == <<cliVars, srvVars, fetchVars>>

old_schema == load_json_file(old_file)
new_schema == load_json_file(new_file)

(* The pure functions of the programs, tabulated over the input files: each   *)
(* entry is the function applied to the contents of files i and j.            *)
DiffTextOf ==
    [i \in FileIds, j \in FileIds |->
        DiffText(DeepDiff(load_json_file(FileAt(i)), load_json_file(FileAt(j))))]
AnalysisOf ==
    [i \in FileIds, j \in FileIds |->
        [r \in Resps |->
            analyze_changes(load_json_file(FileAt(i)), load_json_file(FileAt(j)), r)]]
DiffToolOf ==
    [i \in FileIds, j \in FileIds |-> compare_openapi_files(FileAt(i), FileAt(j))]
CategorizedOf ==
    [i \in FileIds, j \in FileIds |-> _generate_categorized_diff(FileAt(i), FileAt(j))]

\* analyze_changes reaches the service call: the diff text is not blank
\* (line 35) and the client could be constructed (line 38).
CallsService ==
    /\ ~IsBlank(DiffTextOf[old_file.id, new_file.id])
    /\ apiKey

(***************************************************************************)
(* The comparison service: app/routes.py, app/comparator.py, app/models.py *)
(***************************************************************************)
\* The last day of the model, and the number of requests it handles.
MaxDay == 2
MaxCalls == 2

Dates == 1..MaxDay
Names == {"r1", "r2"}
\* Repository paths; the basename of a path is written as the path itself.
RepoPaths == {"r1", "r2", "missing"}
Commits == {"c1", "c2"}

\* A report is told by the two commits it compares; "" is the empty text.
ReportOf(old_commit, new_commit) == [old_commit |-> old_commit, new_commit |-> new_commit]
EmptyText == [old_commit |-> "", new_commit |-> ""]

\* f"{repo_name}-{date}-open-api-diff.md" in the updates directory.
FileName(repo_name, date) == [repo_name |-> repo_name, date |-> date]
NoFileName == [repo_name |-> "", date |-> 0]
FileNames == {FileName(n, d) : n \in Names, d \in Dates}
Absent == [exists |-> FALSE, text |-> EmptyText]
Written(text) == [exists |-> TRUE, text |-> text]

Requests ==
    [repo_path : RepoPaths, old_commit : Commits, new_commit : Commits,
     repo_name : Names \cup {""}]
NoRequest == [repo_path |-> "", old_commit |-> "", new_commit |-> "", repo_name |-> ""]

\* What one run of the comparison script does: its return code, and whether
\* it saved a report and under which date (save_markdown's date argument).
ScriptOutcomes == [returncode : {0, 1}, wrote : BOOLEAN, date : Dates]

\* The updates directory after the script ran (save_markdown).
RunScript(files, outcome, repo_name, old_commit, new_commit) ==
    IF outcome.wrote
    THEN [files EXCEPT ![FileName(repo_name, outcome.date)] =
              Written(ReportOf(old_commit, new_commit))]
    ELSE files

NoResult ==
    [diff_content |-> EmptyText, repo_name |-> "", old_commit |-> "", new_commit |-> "",
     timestamp |-> 0]

\* OpenAPIComparator.compare_commits after the script returned: whether it
\* raised, the file it looked for and the ComparisonResult.  The timestamp
\* of the result is the default of the model class, fixed when it was defined.
comparator_compare_commits(files, returncode, now, defaultTimestamp, repo_name, old_commit, new_commit) ==
    LET diff_file == FileName(repo_name, now) IN
    IF returncode # 0
    THEN [raised |-> TRUE, diff_file |-> NoFileName, result |-> NoResult]
    ELSE [raised |-> FALSE,
          diff_file |-> diff_file,
          result |-> [diff_content |-> IF files[diff_file].exists
                                       THEN files[diff_file].text ELSE EmptyText,
                      repo_name |-> repo_name,
                      old_commit |-> old_commit,
                      new_commit |-> new_commit,
                      timestamp |-> defaultTimestamp]]

NoResponse == [status |-> 0, detail |-> "", diff_file |-> NoFileName]

\* os.path.exists(request.repo_path)
PathExists(repo_path) == repo_path # "missing"

\* routes.compare_commits, line 18
RepoName(req) == IF req.repo_name # "" THEN req.repo_name ELSE req.repo_path

(***************************************************************************)
(* fetch_github_repos.py: the repositories and the working directory       *)
(***************************************************************************)
\* The longest repository list given to clone_or_update_repos.
MaxRepos == 2

s_dot_git == <<".", "g", "i", "t">>
s_whitespace == <<" ", "\n", "\t">>

RECURSIVE rstrip(_, _)
\* str.rstrip(chars): drops every trailing character that is one of chars.
rstrip(s, chars) ==
    IF Len(s) > 0 /\ \E k \in 1..Len(chars) : chars[k] = s[Len(s)]
    THEN rstrip(SubSeq(s, 1, Len(s) - 1), chars)
    ELSE s

RECURSIVE lstrip(_, _)
\* str.lstrip(chars)
lstrip(s, chars) ==
    IF Len(s) > 0 /\ \E k \in 1..Len(chars) : chars[k] = s[1]
    THEN lstrip(Tail(s), chars)
    ELSE s

\* str.strip()
strip(s) == rstrip(lstrip(s, s_whitespace), s_whitespace)

\* The entries of `gh repo list --json name,url,sshUrl,visibility`.
Repo(name, sshUrl, url) == [name |-> name, sshUrl |-> sshUrl, url |-> url]
u_ssh_digit == <<"g", "i", "t", "@", "h", ":", "o", "/", "d", "i", "g", "i", "t", ".", "g", "i", "t">>
u_https_digit == <<"h", "t", "t", "p", "s", ":", "/", "/", "h", "/", "o", "/", "d", "i", "g", "i", "t">>
u_ssh_api == <<"g", "i", "t", "@", "h", ":", "o", "/", "a", "p", "i", ".", "g", "i", "t">>
u_https_api == <<"h", "t", "t", "p", "s", ":", "/", "/", "h", "/", "o", "/", "a", "p", "i">>
RepoCatalogue ==
    <<Repo("digit", u_ssh_digit, u_https_digit), Repo("api", u_ssh_api, u_https_api)>>
RepoNames == {RepoCatalogue[k].name : k \in 1..Len(RepoCatalogue)}

\* The origin URLs a directory found in the working directory may have.
u_ssh_digit_bare == <<"g", "i", "t", "@", "h", ":", "o", "/", "d", "i", "g", "i", "t">>
u_ssh_dig == <<"g", "i", "t", "@", "h", ":", "o", "/", "d", "i", "g", ".", "g", "i", "t">>
u_https_digit_git == <<"h", "t", "t", "p", "s", ":", "/", "/", "h", "/", "o", "/", "d", "i", "g", "i", "t", ".", "g", "i", "t">>
u_ssh_other == <<"g", "i", "t", "@", "h", ":", "o", "/", "o", "t", "h", "e", "r", ".", "g", "i", "t">>
Remotes ==
    {u_ssh_digit, u_ssh_digit_bare, u_ssh_dig, u_https_digit, u_https_digit_git,
     u_ssh_api, u_https_api, u_ssh_other}

\* What is under a name in the working directory: nothing, something that is
\* not a git repository, a repository without origin, a repository with one.
NoDir == [kind |-> "absent", remote |-> <<>>]
NotGit == [kind |-> "notgit", remote |-> <<>>]
NoOrigin == [kind |-> "noorigin", remote |-> <<>>]
GitDir(remote) == [kind |-> "git", remote |-> remote]
DirStates == {NoDir, NotGit, NoOrigin} \cup {GitDir(u) : u \in Remotes}

\* os.path.exists(repo_path)
path_exists(dir) == dir.kind # "absent"

\* is_git_repository(repo_path)
is_git_repository(dir) == dir.kind \in {"noorigin", "git"}

\* get_repo_remote_url: the output of `git remote get-url origin`, stripped,
\* or None (the record of kind "None") when the command fails.
get_repo_remote_url(dir) ==
    IF dir.kind = "git"
    THEN [kind |-> "str", v |-> strip(dir.remote \o <<"\n">>)]
    ELSE [kind |-> "None", v |-> <<>>]

\* Lines 218-221: the comparison of the two URLs.
remote_matches(remote_url, url) ==
    LET remote_base == IF remote_url.kind = "str" /\ Len(remote_url.v) > 0
                       THEN rstrip(remote_url.v, s_dot_git) ELSE <<>>
        url_base == rstrip(url, s_dot_git)
    IN  remote_base = url_base

\* `counter += 1` on the branch taken, with the increment left out.
Incr_NotCounted(counter, taken) == counter

\* `counter += 1` on the branch taken.
Incr(counter, taken) == IF taken THEN counter + 1 ELSE counter

NoOp == [op |-> "none", name |-> "", url |-> <<>>, remote |-> <<>>, before |-> NoDir]
NoSummary == [printed |-> FALSE, new |-> 0, updated |-> 0, failed |-> 0, skipped |-> 0]

\* No clone_or_update_repos runs.
FetchIdle ==
    /\ repos = <<>>
    /\ use_ssh = TRUE
    /\ dirs = [n \in RepoNames |-> NoDir]
    /\ idx = 1
    /\ new_repos = 0
    /\ updated_repos = 0
    /\ failed_repos = 0
    /\ skipped_repos = 0
    /\ lastOp = NoOp
    /\ summary = NoSummary

SrvInit ==
    /\ today = 1
    /\ startDate = 1
    /\ updates = [f \in FileNames |-> Absent]
    /\ nCalls = 0
    /\ request = NoRequest
    /\ scriptRan = FALSE
    /\ readFile = NoFileName
    /\ result = NoResult
    /\ response = NoResponse

Init ==
    /\ \E i \in FileIds, j \in FileIds : old_file = FileAt(i) /\ new_file = FileAt(j)
    /\ apiKey \in BOOLEAN
    /\ call = NothingSent
    /\ pc = "start"
    /\ prog = "none"
    /\ resp = NoCall
    /\ diffed = FALSE
    /\ classification = "unset"
    /\ summary_md = NoText
    /\ saved = NoText
    /\ output = NoOutput
    /\ content = NoContent
    /\ exit = "running"
    /\ SrvInit
    /\ FetchIdle

\* Lines 145, 176-177: analyze_changes returns and main saves the report.
Finish(r) ==
    LET res == AnalysisOf[old_file.id, new_file.id][r] IN
    /\ resp' = r
    /\ classification' = res.classification
    /\ summary_md' = res.summary_md
    /\ saved' = res.summary_md
    /\ pc' = "exit"
    /\ exit' = "ok"

\* main, lines 172-175: a document did not load, or is falsy: nothing is done.
MainSkip ==
    /\ pc = "start"
    /\ ~(Truthy(old_schema) /\ Truthy(new_schema))
    /\ prog' = "analyze"
    /\ pc' = "exit"
    /\ exit' = "ok"
    /\ UNCHANGED <<old_file, new_file, apiKey, call, resp, diffed, classification,
                   summary_md, saved, output, content>>
    /\ UNCHANGED srvVars
    /\ UNCHANGED fetchVars

\* main: analyze_changes runs to its end without calling the service.
MainNoCall ==
    /\ pc = "start"
    /\ Truthy(old_schema) /\ Truthy(new_schema)
    /\ ~CallsService
    /\ prog' = "analyze"
    /\ diffed' = TRUE
    /\ Finish(IF IsBlank(DiffTextOf[old_file.id, new_file.id])
              THEN NoCall ELSE Resp("client", ""))
    /\ UNCHANGED <<old_file, new_file, apiKey, call, output, content>>
    /\ UNCHANGED srvVars
    /\ UNCHANGED fetchVars

\* main: analyze_changes issues the service call (lines 67-74) and waits.
MainCall ==
    /\ pc = "start"
    /\ Truthy(old_schema) /\ Truthy(new_schema)
    /\ CallsService
    /\ prog' = "analyze"
    /\ diffed' = TRUE
    /\ call' = ChatRequest
    /\ pc' = "waiting"
    /\ UNCHANGED <<old_file, new_file, apiKey, resp, classification, summary_md,
                   saved, output, content, exit>>
    /\ UNCHANGED srvVars
    /\ UNCHANGED fetchVars

\* The service answers a JSON object with a "classification" (lines 77-78).
ServiceAnswers ==
    /\ pc = "waiting"
    /\ \E label \in Labels : Finish(Resp("answer", label))
    /\ UNCHANGED <<old_file, new_file, apiKey, call, prog, diffed, output, content>>
    /\ UNCHANGED srvVars
    /\ UNCHANGED fetchVars

\* The content is not JSON (lines 80-82).
ServiceMalformed ==
    /\ pc = "waiting"
    /\ Finish(Resp("malformed", ""))
    /\ UNCHANGED <<old_file, new_file, apiKey, call, prog, diffed, output, content>>
    /\ UNCHANGED srvVars
    /\ UNCHANGED fetchVars

\* The content is JSON of another shape (lines 83-90).
ServiceBadShape ==
    /\ pc = "waiting"
    /\ Finish(Resp("badshape", ""))
    /\ UNCHANGED <<old_file, new_file, apiKey, call, prog, diffed, output, content>>
    /\ UNCHANGED srvVars
    /\ UNCHANGED fetchVars

\* The request fails in transport (lines 83-90).
ServiceTransportError ==
    /\ pc = "waiting"
    /\ Finish(Resp("transport", ""))
    /\ UNCHANGED <<old_file, new_file, apiKey, call, prog, diffed, output, content>>
    /\ UNCHANGED srvVars
    /\ UNCHANGED fetchVars

\* The request times out in the client library (lines 83-90).
ServiceTimeout ==
    /\ pc = "waiting"
    /\ Finish(Resp("timeout", ""))
    /\ UNCHANGED <<old_file, new_file, apiKey, call, prog, diffed, output, content>>
    /\ UNCHANGED srvVars
    /\ UNCHANGED fetchVars

\* openapi_diff.py main: compare_openapi_files(old_file, new_file, output).
DiffTool ==
    /\ pc = "start"
    /\ LET r == DiffToolOf[old_file.id, new_file.id] IN
        /\ output' = r.output
        /\ exit' = IF r.raised THEN "raised" ELSE "ok"
        /\ diffed' = (old_file.id # 0 /\ new_file.id # 0)
    /\ prog' = "openapi_diff"
    /\ pc' = "exit"
    /\ UNCHANGED <<old_file, new_file, apiKey, call, resp, classification, summary_md,
                   saved, content>>
    /\ UNCHANGED srvVars
    /\ UNCHANGED fetchVars

\* OpenAPIComparator._generate_categorized_diff(old_file, new_file).
Categorized ==
    /\ pc = "start"
    /\ LET r == CategorizedOf[old_file.id, new_file.id] IN
        /\ content' = r.content
        /\ exit' = IF r.raised THEN "raised" ELSE "ok"
        /\ diffed' = (old_file.id # 0 /\ new_file.id # 0)
    /\ prog' = "categorized"
    /\ pc' = "exit"
    /\ UNCHANGED <<old_file, new_file, apiKey, call, resp, classification, summary_md,
                   saved, output>>
    /\ UNCHANGED srvVars
    /\ UNCHANGED fetchVars

\* The steps the program takes by itself.
ProgramStep == MainSkip \/ MainNoCall \/ MainCall \/ DiffTool \/ Categorized

\* What the classification service or the network does.
ServiceStep ==
    \/ ServiceAnswers
    \/ ServiceMalformed
    \/ ServiceBadShape
    \/ ServiceTransportError
    \/ ServiceTimeout

Next == ProgramStep \/ ServiceStep

Spec == Init /\ [][Next]_vars

(***************************************************************************)
(* The comparison service                                                  *)
(***************************************************************************)
\* No command-line program runs beside the service.
SrvSpecInit ==
    /\ old_file = FileAt(0)
    /\ new_file = FileAt(0)
    /\ apiKey = FALSE
    /\ call = NothingSent
    /\ pc = "exit"
    /\ prog = "none"
    /\ resp = NoCall
    /\ diffed = FALSE
    /\ classification = "unset"
    /\ summary_md = NoText
    /\ saved = NoText
    /\ output = NoOutput
    /\ content = NoContent
    /\ exit = "running"
    /\ SrvInit
    /\ FetchIdle

\* str(e) of the HTTPException of line 15, which depends on the version of
\* the web framework.
StrOfHTTPException == {"400: Repository path does not exist", ""}

\* POST /compare with a repo_path that does not exist: the HTTPException of
\* line 15 is raised inside the try and caught by `except Exception`.
CompareMissingPath ==
    /\ nCalls < MaxCalls
    /\ \E req \in Requests, detail \in StrOfHTTPException :
        /\ ~PathExists(req.repo_path)
        /\ request' = req
        /\ scriptRan' = FALSE
        /\ readFile' = NoFileName
        /\ result' = NoResult
        /\ response' = [status |-> 500, detail |-> detail, diff_file |-> NoFileName]
    /\ nCalls' = nCalls + 1
    /\ UNCHANGED <<today, startDate, updates>>
    /\ UNCHANGED cliVars
    /\ UNCHANGED fetchVars

\* POST /compare: the script runs, compare_commits reads the report and the
\* route answers.
CompareCommits ==
    /\ nCalls < MaxCalls
    /\ \E req \in Requests, outcome \in ScriptOutcomes :
        /\ PathExists(req.repo_path)
        /\ LET repo_name == RepoName(req)
               files == RunScript(updates, outcome, repo_name,
                                  req.old_commit, req.new_commit)
               r == comparator_compare_commits(files, outcome.returncode, today, startDate,
                                               repo_name, req.old_commit, req.new_commit)
           IN  /\ updates' = files
               /\ request' = req
               /\ scriptRan' = TRUE
               /\ readFile' = r.diff_file
               /\ result' = r.result
               /\ response' =
                     IF r.raised
                     THEN [status |-> 500, detail |-> "Comparison failed",
                           diff_file |-> NoFileName]
                     ELSE [status |-> 200, detail |-> "success",
                           diff_file |-> FileName(r.result.repo_name, r.result.timestamp)]
    /\ nCalls' = nCalls + 1
    /\ UNCHANGED <<today, startDate>>
    /\ UNCHANGED cliVars
    /\ UNCHANGED fetchVars

\* Midnight passes.
DateChange ==
    /\ today < MaxDay
    /\ today' = today + 1
    /\ UNCHANGED <<startDate, updates, nCalls, request, scriptRan, readFile, result, response>>
    /\ UNCHANGED cliVars
    /\ UNCHANGED fetchVars

ServerNext == CompareMissingPath \/ CompareCommits \/ DateChange

ServerSpec == SrvSpecInit /\ [][ServerNext]_vars

(***************************************************************************)
(* clone_or_update_repos                                                   *)
(***************************************************************************)
\* The repository lists: every sequence of catalogue entries up to MaxRepos.
RepoLists ==
    UNION {[1..n -> {RepoCatalogue[k] : k \in 1..Len(RepoCatalogue)}] : n \in 0..MaxRepos}

\* clone_or_update_repos is called (lines 193-205).
FetchSpecInit ==
    /\ old_file = FileAt(0)
    /\ new_file = FileAt(0)
    /\ apiKey = FALSE
    /\ call = NothingSent
    /\ pc = "exit"
    /\ prog = "none"
    /\ resp = NoCall
    /\ diffed = FALSE
    /\ classification = "unset"
    /\ summary_md = NoText
    /\ saved = NoText
    /\ output = NoOutput
    /\ content = NoContent
    /\ exit = "running"
    /\ SrvInit
    /\ repos \in RepoLists
    /\ use_ssh \in BOOLEAN
    /\ dirs \in [RepoNames -> DirStates]
    /\ idx = 1
    /\ new_repos = 0
    /\ updated_repos = 0
    /\ failed_repos = 0
    /\ skipped_repos = 0
    /\ lastOp = NoOp
    /\ summary = NoSummary

\* Lines 208-211 of the iteration at idx.
repo == repos[idx]
name == repo.name
url == IF use_ssh THEN repo.sshUrl ELSE repo.url
InLoop == idx <= Len(repos)

Op(op, remote) == [op |-> op, name |-> name, url |-> url, remote |-> remote, before |-> dirs[name]]

\* Lines 221-226: the directory is a repository whose remote matches; it is
\* fetched into, and update_repository tells whether git succeeded.
UpdateRepo ==
    /\ InLoop
    /\ path_exists(dirs[name])
    /\ is_git_repository(dirs[name])
    /\ remote_matches(get_repo_remote_url(dirs[name]), url)
    /\ \E ok \in BOOLEAN :
        /\ updated_repos' = Incr(updated_repos, ok)
        /\ failed_repos' = Incr(failed_repos, ~ok)
    /\ lastOp' = Op("update", dirs[name].remote)
    /\ idx' = idx + 1
    /\ UNCHANGED <<repos, use_ssh, dirs, new_repos, skipped_repos, summary>>
    /\ UNCHANGED <<cliVars, srvVars>>

\* Lines 227-231: the remote differs.
SkipDifferentRemote ==
    /\ InLoop
    /\ path_exists(dirs[name])
    /\ is_git_repository(dirs[name])
    /\ ~remote_matches(get_repo_remote_url(dirs[name]), url)
    /\ skipped_repos' = Incr(skipped_repos, TRUE)
    /\ lastOp' = Op("skip", dirs[name].remote)
    /\ idx' = idx + 1
    /\ UNCHANGED <<repos, use_ssh, dirs, new_repos, updated_repos, failed_repos, summary>>
    /\ UNCHANGED <<cliVars, srvVars>>

\* Lines 232-236: the directory is not a git repository.
SkipNotGit ==
    /\ InLoop
    /\ path_exists(dirs[name])
    /\ ~is_git_repository(dirs[name])
    /\ skipped_repos' = Incr(skipped_repos, TRUE)
    /\ lastOp' = Op("skip", <<>>)
    /\ idx' = idx + 1
    /\ UNCHANGED <<repos, use_ssh, dirs, new_repos, updated_repos, failed_repos, summary>>
    /\ UNCHANGED <<cliVars, srvVars>>

\* Lines 237-289: nothing is under the name; the repository is cloned.  The
\* four git commands succeed, or `git clone` fails and leaves nothing, or a
\* later command fails and leaves the clone.
CloneRepo ==
    /\ InLoop
    /\ ~path_exists(dirs[name])
    /\ \E outcome \in {"cloned", "clone failed", "setup failed"} :
        /\ new_repos' = Incr(new_repos, outcome = "cloned")
        /\ failed_repos' = Incr(failed_repos, outcome # "cloned")
        /\ dirs' = IF outcome = "clone failed" THEN dirs
                   ELSE [dirs EXCEPT ![name] = GitDir(url)]
    /\ lastOp' = Op("clone", <<>>)
    /\ idx' = idx + 1
    /\ UNCHANGED <<repos, use_ssh, updated_repos, skipped_repos, summary>>
    /\ UNCHANGED <<cliVars, srvVars>>

\* Lines 291-295: the loop is over and the summary is printed.
PrintSummary ==
    /\ ~InLoop
    /\ ~summary.printed
    /\ summary' = [printed |-> TRUE, new |-> new_repos, updated |-> updated_repos,
                   failed |-> failed_repos, skipped |-> skipped_repos]
    /\ UNCHANGED <<repos, use_ssh, dirs, idx, new_repos, updated_repos, failed_repos,
                   skipped_repos, lastOp>>
    /\ UNCHANGED <<cliVars, srvVars>>

FetchNext == UpdateRepo \/ SkipDifferentRemote \/ SkipNotGit \/ CloneRepo \/ PrintSummary

FetchSpec == FetchSpecInit /\ [][FetchNext]_vars

(***************************************************************************)
(* Properties                                                              *)
(***************************************************************************)
s_parameters == <<"p", "a", "r", "a", "m", "e", "t", "e", "r", "s">>
s_responses == <<"r", "e", "s", "p", "o", "n", "s", "e", "s">>

\* The path lies under `paths` or under one of the listed components.*
\* subtrees: its leading segments, not its text, decide.
UnderApiSurface(path_list) ==
    \/ /\ Len(path_list) >= 1
       /\ path_list[1].key = s_paths
    \/ /\ Len(path_list) >= 2
       /\ path_list[1].key = s_components
       /\ path_list[2].key \in {s_securitySchemes, s_schemas, s_parameters, s_responses}

Loaded == old_file.doc.t # "unparseable" /\ new_file.doc.t # "unparseable"
\* The change records between the two loaded documents.
Records == AllChanges(DeepDiff(old_schema, new_schema))
AnalyzeDone == prog = "analyze" /\ pc = "exit" /\ classification # "unset"

\* C1: analyze_changes gives the verdict "No Changes" if and only if the list
\* of change records between the two documents is empty, whatever the
\* classification service answers.
C1_NoChangesIffEmptyDiff ==
    AnalyzeDone => (classification = "No Changes" <=> Len(Records) = 0)

\* C2: when the classification call fails by timeout, malformed response or
\* transport error, the comparison returns the rule-based verdict ("API
\* Change" or "Production Update"), the failure is not the verdict and is not
\* propagated, and the report is rendered in full.
C2_FailureFallsBackToRuleVerdict ==
    (AnalyzeDone /\ resp.kind \in {"timeout", "malformed", "transport"}) =>
        /\ classification = FallbackClassification(DiffText(DeepDiff(old_schema, new_schema)))
        /\ classification \in {"API Change", "Production Update"}
        /\ exit = "ok"
        /\ summary_md.kind = "report"
        /\ saved = summary_md

\* C3: the classification call is issued with an explicit timeout: while the
\* call is in flight, the request carries a timeout, so that the wait for the
\* service is bounded.
C3_CallHasExplicitTimeout ==
    pc = "waiting" => call.timeout # "not given"

\* C4: a change record whose path is not under `paths` nor under one of the
\* listed components.* subtrees is never put in the API category, whatever
\* field names occur deeper in its path.
C4_OnlyApiSurfaceIsApiChange ==
    (prog = "categorized" /\ content.kind = "categorized") =>
        \A i \in 1..Len(content.api) : UnderApiSurface(content.api[i].path_list)

\* C5: for a non-empty record list the rule-based verdict is "API Change" when
\* at least one record is an endpoint, security or schema change, and
\* "Production Update" otherwise.
C5_RuleVerdictByCategory ==
    (AnalyzeDone /\ resp.kind \in {"timeout", "transport", "badshape"} /\ Len(Records) > 0) =>
        classification =
            IF \E i \in 1..Len(Records) : UnderApiSurface(Records[i].path)
            THEN "API Change"
            ELSE "Production Update"

\* C6: once both documents are loaded, looking up the old and the new value
\* at the path of every change record completes without raising, so neither
\* compare_openapi_files nor _generate_categorized_diff raises.
C6_LookupsNeverRaise ==
    (pc = "exit" /\ prog \in {"openapi_diff", "categorized"} /\ Loaded) => exit = "ok"

\* C7: the diff content a successful compare_commits call returns is the
\* report of that call's own pair of commits (or nothing), never a report of
\* another or an earlier call.
C7_OwnReportOnly ==
    response.status = 200 =>
        result.diff_content \in {EmptyText, ReportOf(request.old_commit, request.new_commit)}

\* C8: if either document cannot be loaded, no diff is computed, no report is
\* written and the run ends with the load error, not as a normal return.
C8_LoadFailureIsFatal ==
    (prog = "analyze" /\ pc = "exit" /\ ~Loaded) =>
        /\ ~diffed
        /\ saved = NoText
        /\ exit = "raised"

\* The report of a comparison without changes: the headline, no section and
\* an empty listing.
NoChangesReport == Report("No Changes", <<>>, <<>>)
SameDocument == Loaded /\ DeepEq(old_file.doc, new_file.doc)

\* C9: comparing a document against itself yields an empty change list, the
\* verdict "No Changes" and a no-changes report in analyze_changes,
\* compare_openapi_files and _generate_categorized_diff, whatever the
\* classification service would answer (it is not called).
C9_SelfComparisonIsNoChanges ==
    SameDocument =>
        /\ Len(Records) = 0
        /\ pc # "waiting"
        /\ \A r \in Resps :
              analyze_changes(old_schema, new_schema, r) =
                  [classification |-> "No Changes", summary_md |-> NoChangesReport]
        /\ AnalyzeDone =>
              /\ classification = "No Changes"
              /\ saved = NoChangesReport
              /\ call = NothingSent
        /\ (prog = "openapi_diff" /\ pc = "exit") =>
              /\ output = [kind |-> "no differences", entries |-> <<>>]
              /\ exit = "ok"
        /\ (prog = "categorized" /\ pc = "exit") =>
              /\ content = [kind |-> "No Changes", headings |-> <<>>,
                            api |-> <<>>, production |-> <<>>]
              /\ exit = "ok"

\* C9: analyze_changes ran on two copies of a document and saved the report.
C9_Witness ==
    /\ SameDocument
    /\ AnalyzeDone
    /\ classification = "No Changes"
    /\ saved.kind = "report"

\* The part of a report below its headline.
Body(report) == [sections |-> report.sections, raw |-> report.raw]

\* C10: the answer of the service changes the headline only: the body of the
\* report is the same for every answer, and it lists each change record under
\* the section of its rule-based category.
C10_BodyIsRuleBasedForEveryAnswer ==
    (AnalyzeDone /\ resp.kind = "answer") =>
        /\ \A label \in Labels :
              Body(AnalysisOf[old_file.id, new_file.id][Resp("answer", label)].summary_md)
                  = Body(summary_md)
        /\ \A i \in 1..Len(Records) :
              LET top == IF Len(Records[i].path) > 0 THEN Records[i].path[1].key ELSE <<>>
                  InBody(heading) == \E k \in 1..Len(summary_md.sections) :
                                         summary_md.sections[k] = heading
              IN  /\ top = s_paths => InBody("## API Changes")
                  /\ top = s_components => InBody("## Security Changes")
                  /\ top = s_info => InBody("## Documentation Changes")

\* The section of analyze_changes' report that lists a change record (lines
\* 117-138): the one of the top-level key of its path, if it has one.
SectionOf(path_list) ==
    IF Len(path_list) = 0 THEN "none"
    ELSE IF path_list[1].key = s_paths THEN "## API Changes"
    ELSE IF path_list[1].key = s_components THEN "## Security Changes"
    ELSE IF path_list[1].key = s_info THEN "## Documentation Changes"
    ELSE "none"

\* How many times the sequence of entries lists the path.
TimesListed(entries, path_list) ==
    Cardinality({k \in 1..Len(entries) : entries[k].path_list = path_list})

\* How many sections of analyze_changes' report list the record.
TimesInSections(sections, path_list) ==
    Cardinality({k \in 1..Len(sections) : sections[k] = SectionOf(path_list)})

\* C11: every change record of a diff appears under exactly one category
\* section of the categorized report, in _generate_categorized_diff and in
\* the report of analyze_changes: never under none, never under two.
C11_ExactlyOneCategory ==
    /\ (prog = "categorized" /\ pc = "exit" /\ Loaded) =>
            \A i \in 1..Len(Records) :
                /\ content.kind = "categorized"
                /\ TimesListed(content.api, Records[i].path)
                     + TimesListed(content.production, Records[i].path) = 1
    /\ AnalyzeDone =>
            \A i \in 1..Len(Records) :
                TimesInSections(summary_md.sections, Records[i].path) = 1

\* C12: a category heading is rendered only if a change record belongs to
\* the category: the categorized diff writes the heading of a category only
\* above its changes, and a section of analyze_changes' report has a record.
C12_NoEmptyCategorySection ==
    /\ (prog = "categorized" /\ pc = "exit") =>
            \A k \in 1..Len(content.headings) :
                /\ content.headings[k] = "## API Changes" => Len(content.api) > 0
                /\ content.headings[k] = "## Production Changes" => Len(content.production) > 0
    /\ AnalyzeDone =>
            \A k \in 1..Len(summary_md.sections) :
                \E i \in 1..Len(Records) :
                    SectionOf(Records[i].path) = summary_md.sections[k]

\* C12: a categorized diff was returned whose changes are all API changes:
\* the heading of the production category is left out.
C12_Witness ==
    /\ prog = "categorized"
    /\ pc = "exit"
    /\ content.kind = "categorized"
    /\ content.headings = <<"## API Changes">>
    /\ Len(content.api) > 0
    /\ Len(content.production) = 0

\* C13: a request whose repo_path does not exist is answered with status 400
\* and the detail "Repository path does not exist", and the script is not
\* run for it; status 500 is answered only when the comparison itself failed.
C13_MissingPathIs400 ==
    /\ (nCalls > 0 /\ ~PathExists(request.repo_path)) =>
            /\ response.status = 400
            /\ response.detail = "Repository path does not exist"
            /\ ~scriptRan
    /\ response.status = 500 => scriptRan

\* C14: the diff_file of a successful response names the file that
\* compare_commits read for the request, at any time after the process
\* started.
C14_DiffFileIsTheFileRead ==
    response.status = 200 => response.diff_file = readFile

\* url without one trailing ".git", if it has one.
WithoutDotGit(u) ==
    IF Len(u) >= 4 /\ SubSeq(u, Len(u) - 3, Len(u)) = s_dot_git
    THEN SubSeq(u, 1, Len(u) - 4)
    ELSE u

\* C15: every repository of the list is processed once, in order, whatever
\* fails: after k iterations the four counters add up to k, and the summary
\* is printed with counters that add up to the number of repositories.
C15_EveryRepoCountedOnce ==
    /\ new_repos + updated_repos + failed_repos + skipped_repos = idx - 1
    /\ idx <= Len(repos) + 1
    /\ (lastOp.op # "none") => lastOp.name = repos[idx - 1].name
    /\ summary.printed =>
          /\ idx = Len(repos) + 1
          /\ summary.new + summary.updated + summary.failed + summary.skipped = Len(repos)

\* C15: the summary was printed for a list of two repositories of which one
\* failed and the other was cloned or updated.
C15_Witness ==
    /\ summary.printed
    /\ Len(repos) = 2
    /\ summary.failed = 1
    /\ summary.new + summary.updated = 1
    /\ lastOp.op \in {"clone", "update"}

\* C16: a directory is fetched into only if its origin URL equals the URL of
\* the listed repository up to one trailing ".git".
C16_UpdatesOnlyMatchingRemote ==
    lastOp.op = "update" =>
        /\ lastOp.before.kind = "git"
        /\ WithoutDotGit(lastOp.remote) = WithoutDotGit(lastOp.url)

\* C17: whenever both input files parse as JSON documents, the empty object
\* included, the command-line analysis runs analyze_changes and saves a
\* report.
C17_ParsedDocumentsAreAnalyzed ==
    (prog = "analyze" /\ pc = "exit" /\ Loaded) =>
        /\ diffed
        /\ saved = summary_md
        /\ saved # NoText

====
